---- MODULE Spec2Model ----
(***************************************************************************)
(* Model of the alert monitoring rule engine of gcs-desktop-app            *)
(* (src/lib/alertMonitoring.ts): the deduplication store activeAlerts, the *)
(* dispatcher (emitAlert / clearAlert), the condition checkers and the     *)
(* entry points checkAlerts, getActiveAlerts and clearAllAlerts.           *)
(*                                                                         *)
(* Conventions.                                                            *)
(*  - An optional value (null / undefined in the source) is a sequence of  *)
(*    length 0 (absent) or 1 (present).                                    *)
(*  - A JavaScript Map is a sequence of [key, value] entries in insertion  *)
(*    order, as Map iterates.                                              *)
(*  - Time is in milliseconds, as returned by Date.now().  One call of an  *)
(*    exported function reads a single clock value: a pass is synchronous  *)
(*    and far shorter than the debounce window.                            *)
(*  - Coordinates are integers in units of 1e-4 degree.                    *)
(***************************************************************************)
EXTENDS Integers, Sequences, FiniteSets, TLC

(***************************************************************************)
(* Bounds of the model                                                     *)
(***************************************************************************)
\* the clock starts here and never passes MaxNow
StartNow == 1000
MaxNow == 4000

(***************************************************************************)
(* Configuration (alertMonitoring.ts, lines 12-19)                         *)
(***************************************************************************)
SIGNAL_STRENGTH == -70
LOW_BATTERY == 20
PROXIMITY == 100
ALERT_UPDATE_DEBOUNCE == 3000

\* amounts by which the clock may advance between two calls: just short of
\* the debounce window, and the window exactly
Delays == {ALERT_UPDATE_DEBOUNCE - 1, ALERT_UPDATE_DEBOUNCE}

\* the vehicles checkAlerts iterates over, in that order
vehicles == <<"ERU", "MEA", "MRA">>
VehicleSet == {vehicles[i] : i \in 1..Len(vehicles)}

\* optional values
None == <<>>
Some(x) == <<x>>
IsSome(o) == Len(o) > 0
Unwrap(o) == o[1]

(***************************************************************************)
(* Map<string, number>                                                     *)
(***************************************************************************)
RECURSIVE MapIndex(_, _)
\* index of the entry of key k in map m, 0 when there is none
MapIndex(m, k) ==
  IF m = <<>> THEN 0
  ELSE IF m[Len(m)].key = k THEN Len(m)
  ELSE MapIndex(SubSeq(m, 1, Len(m) - 1), k)

MapHas(m, k) == MapIndex(m, k) # 0

\* Map.get: the value, None (undefined) when the key is absent
MapGet(m, k) == IF MapHas(m, k) THEN Some(m[MapIndex(m, k)].value) ELSE None

\* Map.set: an existing key keeps its place, a new key goes last
MapSet(m, k, v) ==
  IF MapHas(m, k)
    THEN [m EXCEPT ![MapIndex(m, k)] = [key |-> k, value |-> v]]
    ELSE Append(m, [key |-> k, value |-> v])

\* Map.delete
MapDelete(m, k) ==
  IF MapHas(m, k)
    THEN SubSeq(m, 1, MapIndex(m, k) - 1) \o SubSeq(m, MapIndex(m, k) + 1, Len(m))
    ELSE m

\* Array.from(Map.keys())
MapKeys(m) == [i \in 1..Len(m) |-> m[i].key]

(***************************************************************************)
(* Helper functions                                                        *)
(***************************************************************************)
getAlertKey(vehicle, type) == vehicle \o "_" \o type

\* integer square root
Isqrt(n) == CHOOSE r \in 0..n : r * r <= n /\ n < (r + 1) * (r + 1)

\* milli-feet on the ground per 1e-4 degree of arc on a sphere of radius
\* 3959 miles: 3959 * 5280 * (pi / 180) * 1e-4 * 1e3, in 32-bit steps
MilliFeetPerUnit == (((3959 * 5280) \div 1000) * 31416) \div 18000

\* variant: the distance left in whole miles
calculateDistance_miles(lat1, lon1, lat2, lon2) ==
  LET dLat == lat2 - lat1
      dLon == lon2 - lon1
      tenths == Isqrt(100 * (dLat * dLat + dLon * dLon))
  IN  ((tenths * MilliFeetPerUnit) \div 10000) \div 5280

\* Great-circle distance in whole feet.  For the separations (up to a few
\* thousand feet) and latitudes (at the equator) of the model, the haversine
\* formula agrees with the arc length of the planar separation.
calculateDistance(lat1, lon1, lat2, lon2) ==
  LET dLat == lat2 - lat1
      dLon == lon2 - lon1
      tenths == Isqrt(100 * (dLat * dLat + dLon * dLon))
  IN  (tenths * MilliFeetPerUnit) \div 10000

\* Number.toFixed(0) and Number.toFixed(1) of a whole number
toFixed0(n) == ToString(n)
toFixed1(n) == ToString(n) \o ".0"

(***************************************************************************)
(* Alert dispatcher.  st = [alerts |-> the Map, out |-> the notifications  *)
(* published so far by the running call]; now is Date.now().               *)
(***************************************************************************)
CreateToast(id, severity, title, description) ==
  [name |-> "create-toast", id |-> id, type |-> severity,
   title |-> title, description |-> description]

DismissToast(id) == [name |-> "dismiss-toast", id |-> id]

\* !lastUpdate: undefined, or the number 0
Falsy(lastUpdate) == ~IsSome(lastUpdate) \/ Unwrap(lastUpdate) = 0

\* variant: the window compared with a strict inequality
shouldUpdate_strict(lastUpdate, now) ==
  Falsy(lastUpdate) \/ now - Unwrap(lastUpdate) > ALERT_UPDATE_DEBOUNCE

shouldUpdate(lastUpdate, now) ==
  Falsy(lastUpdate) \/ now - Unwrap(lastUpdate) >= ALERT_UPDATE_DEBOUNCE

\* variant: the timestamp is refreshed by a suppressed call too
emitAlert_rearm(st, now, vehicle, type, severity, title, description) ==
  LET alertKey == getAlertKey(vehicle, type)
      lastUpdate == MapGet(st.alerts, alertKey)
  IN  [alerts |-> MapSet(st.alerts, alertKey, now),
       out |-> IF shouldUpdate(lastUpdate, now)
                 THEN Append(st.out, CreateToast(alertKey, severity, title, description))
                 ELSE st.out]

emitAlert(st, now, vehicle, type, severity, title, description) ==
  LET alertKey == getAlertKey(vehicle, type)
      lastUpdate == MapGet(st.alerts, alertKey)
  IN  IF shouldUpdate(lastUpdate, now)
        THEN [alerts |-> MapSet(st.alerts, alertKey, now),
              out |-> Append(st.out, CreateToast(alertKey, severity, title, description))]
        ELSE st

\* variant: the dismiss is published whether or not the key is stored
clearAlert_unguarded(st, vehicle, type) ==
  LET alertKey == getAlertKey(vehicle, type)
  IN  [alerts |-> MapDelete(st.alerts, alertKey),
       out |-> Append(st.out, DismissToast(alertKey))]

clearAlert(st, vehicle, type) ==
  LET alertKey == getAlertKey(vehicle, type)
  IN  IF MapHas(st.alerts, alertKey)
        THEN [alerts |-> MapDelete(st.alerts, alertKey),
              out |-> Append(st.out, DismissToast(alertKey))]
        ELSE st

(***************************************************************************)
(* Alert condition checkers                                                *)
(***************************************************************************)
\* variant: the threshold itself raises the alert
checkSignalStrength_inclusive(st, now, vehicle, signalStrength) ==
  IF signalStrength <= SIGNAL_STRENGTH
    THEN emitAlert(st, now, vehicle, "signal_strength", "warning",
                   "Warning: Signal Integrity",
                   "Weak signal integrity/connection lost to " \o vehicle \o "!")
    ELSE clearAlert(st, vehicle, "signal_strength")

checkSignalStrength(st, now, vehicle, signalStrength) ==
  IF signalStrength < SIGNAL_STRENGTH
    THEN emitAlert(st, now, vehicle, "signal_strength", "warning",
                   "Warning: Signal Integrity",
                   "Weak signal integrity/connection lost to " \o vehicle \o "!")
    ELSE clearAlert(st, vehicle, "signal_strength")

\* variant: every status but "Disconnected" clears the heartbeat alert
checkConnectionStatus_elseClears(st, now, vehicle, vehicleStatus) ==
  LET st1 == IF vehicleStatus = "Disconnected"
               THEN emitAlert(st, now, vehicle, "heartbeat_timeout", "error",
                              "Error: Connection Failure",
                              "Unable to connect to " \o vehicle)
               ELSE clearAlert(st, vehicle, "heartbeat_timeout")
  IN  IF vehicleStatus = "Bad Connection"
        THEN emitAlert(st1, now, vehicle, "signal_strength", "warning",
                       "Warning: Signal Integrity",
                       "Weak signal integrity/connection lost to " \o vehicle \o "!")
        ELSE st1

checkConnectionStatus(st, now, vehicle, vehicleStatus) ==
  LET st1 == IF vehicleStatus = "Disconnected"
               THEN emitAlert(st, now, vehicle, "heartbeat_timeout", "error",
                              "Error: Connection Failure",
                              "Unable to connect to " \o vehicle)
             ELSE IF vehicleStatus = "Connected"
               THEN clearAlert(st, vehicle, "heartbeat_timeout")
             ELSE st
  IN  IF vehicleStatus = "Bad Connection"
        THEN emitAlert(st1, now, vehicle, "signal_strength", "warning",
                       "Warning: Signal Integrity",
                       "Weak signal integrity/connection lost to " \o vehicle \o "!")
        ELSE st1

\* variant: the threshold itself raises the alert
checkBatteryLevel_inclusive(st, now, vehicle, batteryLife) ==
  IF batteryLife <= LOW_BATTERY
    THEN emitAlert(st, now, vehicle, "abnormal_status", "error",
                   "Error: Abnormal Status",
                   "Abnormal " \o vehicle \o " status (low battery: "
                     \o toFixed1(batteryLife) \o "%)!")
    ELSE clearAlert(st, vehicle, "abnormal_status")

checkBatteryLevel(st, now, vehicle, batteryLife) ==
  IF batteryLife < LOW_BATTERY
    THEN emitAlert(st, now, vehicle, "abnormal_status", "error",
                   "Error: Abnormal Status",
                   "Abnormal " \o vehicle \o " status (low battery: "
                     \o toFixed1(batteryLife) \o "%)!")
    ELSE clearAlert(st, vehicle, "abnormal_status")

checkGeoFenceStatus(st, now, vehicle, vehicleStatus) ==
  IF vehicleStatus = "Approaching restricted area"
    THEN emitAlert(st, now, vehicle, "geo_fence", "warning",
                   "Warning: Keep-Out Zone",
                   vehicle \o " approaching keep-out zone!")
  ELSE IF vehicleStatus # "Approaching restricted area"
    THEN clearAlert(st, vehicle, "geo_fence")
  ELSE st

checkVehicleProximity(st, now, vehicle1, lat1, lon1, vehicle2, lat2, lon2) ==
  LET distance == calculateDistance(lat1, lon1, lat2, lon2)
  IN  IF distance < PROXIMITY
        THEN emitAlert(st, now, vehicle1, "proximity_" \o vehicle2, "warning",
                       "Warning: Vehicle Proximity",
                       vehicle1 \o " and " \o vehicle2 \o " are within "
                         \o toFixed0(distance) \o " ft of each other!")
        ELSE clearAlert(st, vehicle1, "proximity_" \o vehicle2)

(***************************************************************************)
(* Main alert monitoring function                                          *)
(***************************************************************************)
\* variant: the connection checker runs before the signal checker
checkVehicle_connectionFirst(st, now, snapshot, vehicle) ==
  LET data == snapshot[vehicle]
  IN  IF ~IsSome(data) THEN st
      ELSE LET d == Unwrap(data)
               s1 == checkConnectionStatus(st, now, vehicle, d.vehicle_status)
               s2 == checkSignalStrength(s1, now, vehicle, d.signal_strength)
               s3 == checkBatteryLevel(s2, now, vehicle, d.battery_life)
           IN  checkGeoFenceStatus(s3, now, vehicle, d.vehicle_status)

\* variant: a vehicle without a record has its four alerts cleared
checkVehicle_absentClears(st, now, snapshot, vehicle) ==
  LET data == snapshot[vehicle]
  IN  IF ~IsSome(data)
        THEN clearAlert(clearAlert(clearAlert(clearAlert(st,
               vehicle, "signal_strength"), vehicle, "heartbeat_timeout"),
               vehicle, "abnormal_status"), vehicle, "geo_fence")
      ELSE LET d == Unwrap(data)
               s1 == checkSignalStrength(st, now, vehicle, d.signal_strength)
               s2 == checkConnectionStatus(s1, now, vehicle, d.vehicle_status)
               s3 == checkBatteryLevel(s2, now, vehicle, d.battery_life)
           IN  checkGeoFenceStatus(s3, now, vehicle, d.vehicle_status)

\* the body of vehicles.forEach for one vehicle
checkVehicle(st, now, snapshot, vehicle) ==
  LET data == snapshot[vehicle]
  IN  IF ~IsSome(data) THEN st
      ELSE LET d == Unwrap(data)
               s1 == checkSignalStrength(st, now, vehicle, d.signal_strength)
               s2 == checkConnectionStatus(s1, now, vehicle, d.vehicle_status)
               s3 == checkBatteryLevel(s2, now, vehicle, d.battery_life)
           IN  checkGeoFenceStatus(s3, now, vehicle, d.vehicle_status)

RECURSIVE forEachVehicle(_, _, _, _)
\* vehicles.forEach from index i on
forEachVehicle(st, now, snapshot, i) ==
  IF i > Len(vehicles) THEN st
  ELSE forEachVehicle(checkVehicle(st, now, snapshot, vehicles[i]), now, snapshot, i + 1)

\* telemetryState.V?.current_position is truthy
hasPosition(snapshot, vehicle) ==
  IsSome(snapshot[vehicle]) /\ IsSome(Unwrap(snapshot[vehicle]).current_position)

positionOf(snapshot, vehicle) == Unwrap(Unwrap(snapshot[vehicle]).current_position)

\* variant: a pair with a missing position has its alert cleared
checkPair_clearsWhenMissing(st, now, snapshot, vehicle1, vehicle2) ==
  IF hasPosition(snapshot, vehicle1) /\ hasPosition(snapshot, vehicle2)
    THEN checkVehicleProximity(st, now,
           vehicle1, positionOf(snapshot, vehicle1).latitude,
           positionOf(snapshot, vehicle1).longitude,
           vehicle2, positionOf(snapshot, vehicle2).latitude,
           positionOf(snapshot, vehicle2).longitude)
    ELSE clearAlert(st, vehicle1, "proximity_" \o vehicle2)

\* one of the three guarded proximity checks
checkPair(st, now, snapshot, vehicle1, vehicle2) ==
  IF hasPosition(snapshot, vehicle1) /\ hasPosition(snapshot, vehicle2)
    THEN checkVehicleProximity(st, now,
           vehicle1, positionOf(snapshot, vehicle1).latitude,
           positionOf(snapshot, vehicle1).longitude,
           vehicle2, positionOf(snapshot, vehicle2).latitude,
           positionOf(snapshot, vehicle2).longitude)
    ELSE st

\* variant: the first pair is checked from MEA to ERU
checkSnapshot_reversedPair(st, now, snapshot) ==
  LET s1 == forEachVehicle(st, now, snapshot, 1)
      s2 == checkPair(s1, now, snapshot, "MEA", "ERU")
      s3 == checkPair(s2, now, snapshot, "ERU", "MRA")
  IN  checkPair(s3, now, snapshot, "MEA", "MRA")

\* the body of checkAlerts past its guard
checkSnapshot(st, now, snapshot) ==
  LET s1 == forEachVehicle(st, now, snapshot, 1)
      s2 == checkPair(s1, now, snapshot, "ERU", "MEA")
      s3 == checkPair(s2, now, snapshot, "ERU", "MRA")
  IN  checkPair(s3, now, snapshot, "MEA", "MRA")

\* variant: missing telemetry is taken for the end of every alert
checkAlerts_nullClears(st, now, telemetryState) ==
  IF ~IsSome(telemetryState)
    THEN [alerts |-> <<>>,
          out |-> st.out \o [i \in 1..Len(st.alerts) |-> DismissToast(st.alerts[i].key)]]
    ELSE checkSnapshot(st, now, Unwrap(telemetryState))

\* telemetryState is an optional snapshot
checkAlerts(st, now, telemetryState) ==
  IF ~IsSome(telemetryState) THEN st
  ELSE checkSnapshot(st, now, Unwrap(telemetryState))

getActiveAlerts(alerts) == MapKeys(alerts)

\* variant: the store is emptied without a dismiss for its first key
clearAllAlerts_skipFirst(st) ==
  [alerts |-> <<>>,
   out |-> st.out \o [i \in 1..(Len(st.alerts) - 1) |-> DismissToast(st.alerts[i + 1].key)]]

clearAllAlerts(st) ==
  [alerts |-> <<>>,
   out |-> st.out \o [i \in 1..Len(st.alerts) |-> DismissToast(st.alerts[i].key)]]

(***************************************************************************)
(* Telemetry the monitoring pass may be handed                             *)
(***************************************************************************)
Signals == {SIGNAL_STRENGTH - 1, SIGNAL_STRENGTH}
Statuses == {"Connected", "Disconnected", "Bad Connection",
             "Approaching restricted area", "In Use"}
Batteries == {LOW_BATTERY - 1, LOW_BATTERY}
\* two places about 109 ft apart
Positions == {[latitude |-> 0, longitude |-> 0],
              [latitude |-> 0, longitude |-> 3]}

\* a vehicle with nothing to report: no checker raises an alert on it
Nominal(position) ==
  [signal_strength |-> SIGNAL_STRENGTH, vehicle_status |-> "Connected",
   battery_life |-> LOW_BATTERY, current_position |-> position]

\* every record without a position
Readings ==
  [signal_strength : Signals, vehicle_status : Statuses,
   battery_life : Batteries, current_position : {None}]

\* Telemetry in which at most one vehicle departs from the nominal record:
\* it has any reading, or no record at all
FaultTelemetry ==
  {[v \in VehicleSet |-> IF v = w THEN o ELSE Some(Nominal(None))] :
     w \in VehicleSet, o \in {None} \cup {Some(r) : r \in Readings}}

\* Telemetry in which the vehicles differ in their positions only, and a
\* vehicle may have no position or no record
PositionTelemetry ==
  [VehicleSet -> {None, Some(Nominal(None))}
                   \cup {Some(Nominal(Some(p))) : p \in Positions}]

\* where a vehicle with nothing to report stays, and a place 109 ft from it
Home == [latitude |-> 0, longitude |-> 0]
Away == [latitude |-> 0, longitude |-> 3]

\* readings of a vehicle on patrol: everything wrong, at the fence, or all
\* well, each away from home or with no position; or all well at home
PatrolReadings ==
  {[signal_strength |-> r[1], vehicle_status |-> r[2], battery_life |-> r[3],
    current_position |-> p] :
     r \in {<<SIGNAL_STRENGTH - 1, "Disconnected", LOW_BATTERY - 1>>,
            <<SIGNAL_STRENGTH, "Approaching restricted area", LOW_BATTERY>>,
            <<SIGNAL_STRENGTH, "Connected", LOW_BATTERY>>},
     p \in {None, Some(Away)}}
  \cup {Nominal(Some(Home))}

\* Telemetry in which two vehicles stay at home with nothing to report and
\* the third is on patrol, or has no record
PatrolTelemetry ==
  {[v \in VehicleSet |-> IF v = w THEN o ELSE Some(Nominal(Some(Home)))] :
     w \in VehicleSet, o \in {None} \cup {Some(r) : r \in PatrolReadings}}

\* a healthy link and a low or a high battery, at (0, 0) or 0.001 degree
\* of longitude east of it
ScenarioReadings ==
  [signal_strength : {-50}, vehicle_status : {"Connected"},
   battery_life : {15, 90},
   current_position : {Some([latitude |-> 0, longitude |-> 0]),
                       Some([latitude |-> 0, longitude |-> 10])}]

\* Telemetry of ERU and MEA with such readings or no record, MRA having no
\* record
ScenarioTelemetry ==
  {[v \in VehicleSet |-> IF v = "ERU" THEN e ELSE IF v = "MEA" THEN m ELSE None] :
     e \in {None} \cup {Some(r) : r \in ScenarioReadings},
     m \in {None} \cup {Some(r) : r \in ScenarioReadings}}

\* readings of a vehicle whose link and battery come and go
TickReadings ==
  [signal_strength : Signals,
   vehicle_status : {"Connected", "Disconnected", "Bad Connection"},
   battery_life : Batteries, current_position : {None}]

\* Telemetry of ERU alone with such readings
TickTelemetry ==
  {[v \in VehicleSet |-> IF v = "ERU" THEN Some(r) ELSE None] : r \in TickReadings}

\* Telemetry of ERU alone, with any reading or no record
SoloTelemetry ==
  {[v \in VehicleSet |-> IF v = "ERU" THEN o ELSE None] :
     o \in {None} \cup {Some(r) : r \in Readings}}

\* every telemetry snapshot over the readings and positions above
Telemetry ==
  [VehicleSet ->
     {None} \cup {Some(r) : r \in
        [signal_strength : Signals, vehicle_status : Statuses,
         battery_life : Batteries,
         current_position : {None} \cup {Some(p) : p \in Positions}]}]

\* arguments the checkers hand to emitAlert and clearAlert
DispatcherCalls ==
  {[vehicle |-> "ERU", type |-> "signal_strength", severity |-> "warning",
    title |-> "Warning: Signal Integrity",
    description |-> "Weak signal integrity/connection lost to ERU!"],
   [vehicle |-> "ERU", type |-> "heartbeat_timeout", severity |-> "error",
    title |-> "Error: Connection Failure",
    description |-> "Unable to connect to ERU"],
   [vehicle |-> "MEA", type |-> "proximity_MRA", severity |-> "warning",
    title |-> "Warning: Vehicle Proximity",
    description |-> "MEA and MRA are within 0 ft of each other!"]}

(***************************************************************************)
(* State                                                                   *)
(***************************************************************************)
VARIABLES
  now,             \* the last value read from Date.now()
  activeAlerts,    \* the Map of alert key to last update timestamp
  telemetryState,  \* the argument of the most recent checkAlerts call
  lastCall,        \* the most recent call: its name and arguments
  emitted,         \* the notifications the most recent call published, in order
  shown,           \* history: the ids whose most recent notification from
                   \* the dispatcher is a create-toast, each with the time
                   \* it was published
  toasts           \* the toasts on display, by id

vars == <<now, activeAlerts, telemetryState, lastCall, emitted, shown, toasts>>

RECURSIVE Publish(_, _, _)
\* the history after the notifications out, published at time at
Publish(history, out, at) ==
  IF out = <<>> THEN history
  ELSE LET e == Head(out)
           h == IF e.name = "create-toast"
                  THEN [k \in DOMAIN history \cup {e.id} |->
                          IF k = e.id THEN at ELSE history[k]]
                  ELSE [k \in DOMAIN history \ {e.id} |-> history[k]]
       IN  Publish(h, Tail(out), at)

(***************************************************************************)
(* Toast display: the listeners of the events the dispatcher and the       *)
(* display's own buttons emit.  Events are handled in the order they were  *)
(* emitted, and all of them before the next operation.                     *)
(***************************************************************************)
DismissAllToasts == [name |-> "dismiss-all-toasts"]

\* the display after the listener of the event e has run: toast[type] with
\* an id adds the toast or replaces the one with that id, toast.dismiss(id)
\* removes it, toast.dismiss() removes them all
onEvent(display, e) ==
  CASE e.name = "create-toast" ->
         [k \in DOMAIN display \cup {e.id} |->
            IF k = e.id
              THEN [type |-> e.type, title |-> e.title, description |-> e.description]
              ELSE display[k]]
    [] e.name = "dismiss-toast" ->
         [k \in DOMAIN display \ {e.id} |-> display[k]]
    [] e.name = "dismiss-all-toasts" -> <<>>

RECURSIVE Deliver(_, _)
\* the display after the events out
Deliver(display, out) ==
  IF out = <<>> THEN display
  ELSE Deliver(onEvent(display, Head(out)), Tail(out))

Init ==
  /\ toasts = <<>>
  /\ now = StartNow
  /\ activeAlerts = <<>>
  /\ telemetryState = None
  /\ lastCall = <<"init">>
  /\ emitted = <<>>
  /\ shown = <<>>

\* Date.now() at the next call: the clock does not run backwards
Clock == {now + d : d \in {0} \cup Delays} \cap (0..MaxNow)

\* StoresSync calls checkAlerts with the current telemetry, or with null
CheckAlerts(ts) ==
  \E t \in Clock :
    \E st \in {checkAlerts([alerts |-> activeAlerts, out |-> <<>>], t, ts)} :
        /\ now' = t
        /\ activeAlerts' = st.alerts
        /\ emitted' = st.out
        /\ shown' = Publish(shown, st.out, t)
        /\ toasts' = Deliver(toasts, st.out)
        /\ telemetryState' = ts
        /\ lastCall' = <<"checkAlerts">>

ClearAllAlerts ==
  \E t \in Clock :
    \E st \in {clearAllAlerts([alerts |-> activeAlerts, out |-> <<>>])} :
        /\ now' = t
        /\ activeAlerts' = st.alerts
        /\ emitted' = st.out
        /\ shown' = Publish(shown, st.out, t)
        /\ toasts' = Deliver(toasts, st.out)
        /\ lastCall' = <<"clearAllAlerts">>
        /\ UNCHANGED telemetryState

\* a direct call of the dispatcher's emitAlert, with the arguments c
EmitAlert(c) ==
  \E t \in Clock :
    \E st \in {emitAlert([alerts |-> activeAlerts, out |-> <<>>], t,
                         c.vehicle, c.type, c.severity, c.title, c.description)} :
        /\ now' = t
        /\ activeAlerts' = st.alerts
        /\ emitted' = st.out
        /\ shown' = Publish(shown, st.out, t)
        /\ toasts' = Deliver(toasts, st.out)
        /\ lastCall' = <<"emitAlert", c.vehicle, c.type>>
        /\ UNCHANGED telemetryState

\* a direct call of the dispatcher's clearAlert
ClearAlert(c) ==
  \E t \in Clock :
    \E st \in {clearAlert([alerts |-> activeAlerts, out |-> <<>>], c.vehicle, c.type)} :
        /\ now' = t
        /\ activeAlerts' = st.alerts
        /\ emitted' = st.out
        /\ shown' = Publish(shown, st.out, t)
        /\ toasts' = Deliver(toasts, st.out)
        /\ lastCall' = <<"clearAlert", c.vehicle, c.type>>
        /\ UNCHANGED telemetryState

\* half of the debounce window
HalfWindow == ALERT_UPDATE_DEBOUNCE \div 2

\* Date.now() at calls that follow each other at once or about twice per
\* window
TickClock == {now + d : d \in {0, HalfWindow - 1, HalfWindow}} \cap (0..MaxNow)

\* checkAlerts called on such a tick
CheckAlertsTick(ts) ==
  \E t \in TickClock :
    \E st \in {checkAlerts([alerts |-> activeAlerts, out |-> <<>>], t, ts)} :
        /\ now' = t
        /\ activeAlerts' = st.alerts
        /\ emitted' = st.out
        /\ shown' = Publish(shown, st.out, t)
        /\ toasts' = Deliver(toasts, st.out)
        /\ telemetryState' = ts
        /\ lastCall' = <<"checkAlerts">>

\* emitAlert called on such a tick, with the arguments c
EmitAlertTick(c) ==
  \E t \in TickClock :
    \E st \in {emitAlert([alerts |-> activeAlerts, out |-> <<>>], t,
                         c.vehicle, c.type, c.severity, c.title, c.description)} :
        /\ now' = t
        /\ activeAlerts' = st.alerts
        /\ emitted' = st.out
        /\ shown' = Publish(shown, st.out, t)
        /\ toasts' = Deliver(toasts, st.out)
        /\ lastCall' = <<"emitAlert", c.vehicle, c.type>>
        /\ UNCHANGED telemetryState

\* the user clicks the Dismiss action of the toast id
Dismiss(id) ==
  /\ id \in DOMAIN toasts
  /\ emitted' = <<DismissToast(id)>>
  /\ toasts' = Deliver(toasts, emitted')
  /\ lastCall' = <<"Dismiss", id>>
  /\ UNCHANGED <<now, activeAlerts, telemetryState, shown>>

\* the user clicks the Dismiss All button
DismissAll ==
  /\ emitted' = <<DismissAllToasts>>
  /\ toasts' = Deliver(toasts, emitted')
  /\ lastCall' = <<"DismissAll">>
  /\ UNCHANGED <<now, activeAlerts, telemetryState, shown>>

\* the program fed with telemetry from the set T
NextOver(T) ==
  \/ \E ts \in {None} \cup {Some(s) : s \in T} : CheckAlerts(ts)
  \/ ClearAllAlerts

\* The program, whatever the telemetry.  Its state space is the product of
\* the fifteen keys' timestamps; the specifications below explore it along
\* telemetry that varies one vehicle's readings, or the positions alone.
Next == NextOver(Telemetry)
Spec == Init /\ [][Next]_vars

\* the program with at most one vehicle departing from the nominal record
NextFault == NextOver(FaultTelemetry)
SpecFault == Init /\ [][NextFault]_vars

\* the program with vehicles that differ in their positions only
NextPosition == NextOver(PositionTelemetry)
SpecPosition == Init /\ [][NextPosition]_vars

\* the program with one vehicle on patrol and the others at home
NextPatrol == NextOver(PatrolTelemetry)
SpecPatrol == Init /\ [][NextPatrol]_vars

\* the program with the telemetry of the end-to-end scenario and around it
NextScenario == NextOver(ScenarioTelemetry)
SpecScenario == Init /\ [][NextScenario]_vars

\* the program and its dispatcher called on ticks within the window
NextTick ==
  \/ \E ts \in {Some(s) : s \in TickTelemetry} : CheckAlertsTick(ts)
  \/ \E c \in DispatcherCalls : EmitAlertTick(c)
SpecTick == Init /\ [][NextTick]_vars

\* the program with ERU the only vehicle that reports
NextSolo == NextOver(SoloTelemetry)
SpecSolo == Init /\ [][NextSolo]_vars

\* the program with ERU's link and battery coming and going, and a user at
\* the display
NextDisplay ==
  \/ NextOver(TickTelemetry)
  \/ \E id \in DOMAIN toasts : Dismiss(id)
  \/ DismissAll
SpecDisplay == Init /\ [][NextDisplay]_vars

\* the dispatcher alone, called as the checkers call it
NextDispatcher ==
  \/ \E c \in DispatcherCalls : EmitAlert(c)
  \/ \E c \in DispatcherCalls : ClearAlert(c)
SpecDispatcher == Init /\ [][NextDispatcher]_vars

(***************************************************************************)
(* Vocabulary of the properties                                            *)
(***************************************************************************)
\* the store as a function from its keys to their timestamps
StoreOf(m) == [k \in {m[i].key : i \in 1..Len(m)} |-> m[MapIndex(m, k)].value]

\* the notifications about id among out, in order
About(out, id) == SelectSeq(out, LAMBDA e : e.id = id)

Creates(out) == SelectSeq(out, LAMBDA e : e.name = "create-toast")
Dismisses(out) == SelectSeq(out, LAMBDA e : e.name = "dismiss-toast")

RECURSIVE Justified(_, _)
\* every dismiss-toast among out finds its id shown, starting from history
Justified(history, out) ==
  IF out = <<>> THEN TRUE
  ELSE /\ Head(out).name = "dismiss-toast" => Head(out).id \in DOMAIN history
       /\ Justified(Publish(history, <<Head(out)>>, 0), Tail(out))

(***************************************************************************)
(* C1  Debounce.  A call of emitAlert for a key publishes exactly one      *)
(* create-toast when the key's most recent notification is not a           *)
(* create-toast (none yet, or a dismiss) or is a create-toast published at *)
(* least 3000 ms earlier, and publishes nothing otherwise.  So of three    *)
(* calls at 1000, 3999 and 4000 ms the first and the third publish, and    *)
(* two create-toasts for a key with no dismiss between them are at least   *)
(* 3000 ms apart.                                                          *)
(***************************************************************************)
DebounceStep ==
  \A c \in DispatcherCalls :
    lastCall' = <<"emitAlert", c.vehicle, c.type>> =>
      LET k == getAlertKey(c.vehicle, c.type)
          due == k \notin DOMAIN shown \/ now' - shown[k] >= 3000
      IN  /\ Dismisses(emitted') = <<>>
          /\ \A i \in 1..Len(emitted') : emitted'[i].id = k
          /\ Len(emitted') = IF due THEN 1 ELSE 0
          /\ (k \in DOMAIN shown /\ emitted' # <<>>) => now' - shown[k] >= 3000

C1_Debounce == [][DebounceStep]_vars

\* a call 2999 ms after the key's create-toast has just been suppressed
C1_Witness ==
  /\ lastCall[1] = "emitAlert"
  /\ emitted = <<>>
  /\ getAlertKey(lastCall[2], lastCall[3]) \in DOMAIN shown
  /\ now - shown[getAlertKey(lastCall[2], lastCall[3])] = 2999

(***************************************************************************)
(* C2  Store and channel agree.  In every state the keys of the store are  *)
(* exactly the ids whose most recent published notification is a           *)
(* create-toast, each stored with the time of that create-toast; and every *)
(* dismiss-toast published follows a create-toast for its id that was not  *)
(* yet dismissed.                                                          *)
(***************************************************************************)
StoreMatchesHistory == StoreOf(activeAlerts) = shown

C2_StoreMatchesChannel ==
  StoreMatchesHistory /\ [][StoreMatchesHistory' /\ Justified(shown, emitted')]_vars

\* a pass has dismissed a key and raised it again, and the store holds it
C2_Witness ==
  \E k \in DOMAIN shown :
    /\ lastCall[1] = "checkAlerts"
    /\ Len(About(emitted, k)) = 2
    /\ About(emitted, k)[1].name = "dismiss-toast"
    /\ About(emitted, k)[2].name = "create-toast"
    /\ MapGet(activeAlerts, k) = Some(now)
    /\ now > StartNow

(***************************************************************************)
(* C3  Idempotent clear.  clearAlert for a key that is not in the store    *)
(* publishes nothing and leaves the store as it is; a second clearAlert    *)
(* for the same key right after the first does nothing, and no call        *)
(* publishes more than one dismiss-toast.                                  *)
(***************************************************************************)
IdempotentClearStep ==
  \A c \in DispatcherCalls :
    lastCall' = <<"clearAlert", c.vehicle, c.type>> =>
      LET k == getAlertKey(c.vehicle, c.type)
          nothing == emitted' = <<>> /\ activeAlerts' = activeAlerts
      IN  /\ ~MapHas(activeAlerts, k) => nothing
          /\ lastCall = lastCall' => nothing
          /\ Len(emitted') <= 1
          /\ Creates(emitted') = <<>>
          /\ ~MapHas(activeAlerts', k)

C3_IdempotentClear == [][IdempotentClearStep]_vars

\* a clearAlert found other keys in the store and not its own
C3_Witness ==
  /\ lastCall[1] = "clearAlert"
  /\ emitted = <<>>
  /\ Len(activeAlerts) >= 2

(***************************************************************************)
(* C4  Snapshot absence.  checkAlerts(null) leaves the store, keys and     *)
(* timestamps, and the result of getActiveAlerts as they are and publishes *)
(* nothing.                                                                *)
(***************************************************************************)
NullPassStep ==
  (lastCall' = <<"checkAlerts">> /\ telemetryState' = None) =>
    /\ activeAlerts' = activeAlerts
    /\ getActiveAlerts(activeAlerts') = getActiveAlerts(activeAlerts)
    /\ emitted' = <<>>
    /\ shown' = shown

C4_NullSnapshot == [][NullPassStep]_vars

\* a null pass met a store holding several alerts
C4_Witness ==
  /\ lastCall = <<"checkAlerts">>
  /\ telemetryState = None
  /\ Len(getActiveAlerts(activeAlerts)) >= 2

(***************************************************************************)
(* C5  Clear-all.  clearAllAlerts publishes exactly one dismiss-toast for  *)
(* each key that was in the store, no other notification, and leaves       *)
(* getActiveAlerts empty.                                                  *)
(***************************************************************************)
ClearAllStep ==
  lastCall' = <<"clearAllAlerts">> =>
    LET K == DOMAIN StoreOf(activeAlerts)
    IN  /\ Creates(emitted') = <<>>
        /\ \A i \in 1..Len(emitted') : emitted'[i].id \in K
        /\ \A k \in K : Len(About(emitted', k)) = 1
        /\ getActiveAlerts(activeAlerts') = <<>>

C5_ClearAll == [][ClearAllStep]_vars

\* clearAllAlerts has dismissed three alerts or more
C5_Witness ==
  /\ lastCall = <<"clearAllAlerts">>
  /\ Len(emitted) >= 3
  /\ getActiveAlerts(activeAlerts) = <<>>

\* a checkAlerts pass over a snapshot has just run
AfterPass == lastCall = <<"checkAlerts">> /\ IsSome(telemetryState)

\* the vehicles with a record in the snapshot of the last pass
Reporting == {v \in VehicleSet : IsSome(Unwrap(telemetryState)[v])}

\* the record of vehicle v in the snapshot of the last pass
RecordOf(v) == Unwrap(Unwrap(telemetryState)[v])

(***************************************************************************)
(* C6  Signal and connection overlap.  After a pass over a snapshot with a *)
(* record for V, V_signal_strength is in the store exactly when the record *)
(* has signal_strength < -70 or vehicle_status "Bad Connection".           *)
(***************************************************************************)
C6_SignalKeyLastWriteWins ==
  AfterPass =>
    \A v \in Reporting :
      MapHas(activeAlerts, v \o "_signal_strength")
        <=> (RecordOf(v).signal_strength < -70
               \/ RecordOf(v).vehicle_status = "Bad Connection")

\* the signal checker cleared the alert and the connection checker raised it
\* again in the same pass
C6_Witness ==
  /\ AfterPass
  /\ \E v \in Reporting :
       /\ RecordOf(v).signal_strength >= -70
       /\ RecordOf(v).vehicle_status = "Bad Connection"
       /\ MapHas(activeAlerts, v \o "_signal_strength")
       /\ Len(About(emitted, v \o "_signal_strength")) = 2
       /\ About(emitted, v \o "_signal_strength")[1].name = "dismiss-toast"

(***************************************************************************)
(* C7  Threshold boundary.  In a pass whose record for V does not say      *)
(* "Bad Connection", a signal strength of exactly -70 takes the clear      *)
(* path (the key is gone, dismissed if it was stored, and no create-toast  *)
(* is published), and a signal strength below -70 takes the alert path     *)
(* (the key is stored, nothing is dismissed, and what is published for the *)
(* key is a create-toast of severity warning, published at once when the   *)
(* key was not stored).                                                    *)
(***************************************************************************)
ThresholdStep ==
  (lastCall' = <<"checkAlerts">> /\ IsSome(telemetryState')) =>
    \A v \in Reporting' :
      LET k == v \o "_signal_strength"
          about == About(emitted', k)
      IN  RecordOf(v)'.vehicle_status # "Bad Connection" =>
            /\ RecordOf(v)'.signal_strength = -70 =>
                 /\ ~MapHas(activeAlerts', k)
                 /\ Creates(about) = <<>>
                 /\ MapHas(activeAlerts, k) => about = <<DismissToast(k)>>
            /\ RecordOf(v)'.signal_strength < -70 =>
                 /\ MapHas(activeAlerts', k)
                 /\ Dismisses(about) = <<>>
                 /\ \A i \in 1..Len(about) : about[i].type = "warning"
                 /\ ~MapHas(activeAlerts, k) => Len(about) = 1

C7_ThresholdBoundary == [][ThresholdStep]_vars

\* a pass with a signal strength of exactly -70 has dismissed the alert
C7_Witness ==
  /\ AfterPass
  /\ \E v \in Reporting :
       /\ RecordOf(v).signal_strength = -70
       /\ RecordOf(v).vehicle_status # "Bad Connection"
       /\ About(emitted, v \o "_signal_strength") = <<DismissToast(v \o "_signal_strength")>>

(***************************************************************************)
(* C8  Battery and geo-fence alerts follow the record.  After a pass over  *)
(* a snapshot with a record for V, V_abnormal_status is in the store       *)
(* exactly when battery_life < 20 and V_geo_fence exactly when             *)
(* vehicle_status is "Approaching restricted area"; a create-toast for the *)
(* first has severity error, for the second severity warning.              *)
(***************************************************************************)
C8_LevelTriggered ==
  AfterPass =>
    \A v \in Reporting :
      /\ MapHas(activeAlerts, v \o "_abnormal_status")
           <=> RecordOf(v).battery_life < 20
      /\ MapHas(activeAlerts, v \o "_geo_fence")
           <=> RecordOf(v).vehicle_status = "Approaching restricted area"
      /\ \A i \in 1..Len(emitted) :
           emitted[i].name = "create-toast" =>
             /\ emitted[i].id = v \o "_abnormal_status" => emitted[i].type = "error"
             /\ emitted[i].id = v \o "_geo_fence" => emitted[i].type = "warning"

\* a pass has raised both alerts for a vehicle
C8_Witness ==
  /\ AfterPass
  /\ \E v \in Reporting :
       /\ RecordOf(v).battery_life < 20
       /\ RecordOf(v).vehicle_status = "Approaching restricted area"
       /\ Len(Creates(About(emitted, v \o "_abnormal_status"))) = 1
       /\ Len(Creates(About(emitted, v \o "_geo_fence"))) = 1

(***************************************************************************)
(* C9  The heartbeat alert is latched.  A pass with status "Disconnected"  *)
(* for V leaves V_heartbeat_timeout in the store, a pass with "Connected"  *)
(* removes it, with a dismiss-toast when it was stored, and a pass with    *)
(* any other status leaves its presence and timestamp as they were and     *)
(* publishes nothing for it.                                               *)
(***************************************************************************)
HeartbeatStep ==
  (lastCall' = <<"checkAlerts">> /\ IsSome(telemetryState')) =>
    \A v \in Reporting' :
      LET k == v \o "_heartbeat_timeout"
          about == About(emitted', k)
          status == RecordOf(v)'.vehicle_status
      IN  /\ status = "Disconnected" =>
               MapHas(activeAlerts', k) /\ Dismisses(about) = <<>>
          /\ status = "Connected" =>
               /\ ~MapHas(activeAlerts', k)
               /\ about = IF MapHas(activeAlerts, k) THEN <<DismissToast(k)>> ELSE <<>>
          /\ status \notin {"Disconnected", "Connected"} =>
               /\ MapGet(activeAlerts', k) = MapGet(activeAlerts, k)
               /\ about = <<>>

C9_HeartbeatLatched == [][HeartbeatStep]_vars

\* a pass with another status found the heartbeat alert and left it
C9_Witness ==
  /\ AfterPass
  /\ \E v \in Reporting :
       /\ RecordOf(v).vehicle_status \notin {"Disconnected", "Connected"}
       /\ MapHas(activeAlerts, v \o "_heartbeat_timeout")
       /\ About(emitted, v \o "_heartbeat_timeout") = <<>>

(***************************************************************************)
(* C10  A missing position skips the proximity check.  When the key of a   *)
(* pair is in the store and a pass receives a snapshot in which a vehicle  *)
(* of the pair has no record or no position, the key keeps its place and   *)
(* timestamp and neither a dismiss-toast nor a create-toast is published   *)
(* for it.                                                                 *)
(***************************************************************************)
Pairs == {<<"ERU", "MEA">>, <<"ERU", "MRA">>, <<"MEA", "MRA">>}

ProximityKey(pair) == pair[1] \o "_proximity_" \o pair[2]

\* a vehicle of the pair has no record or no position in the snapshot ts
Unlocated(ts, pair) ==
  \E i \in 1..2 :
    \/ ~IsSome(Unwrap(ts)[pair[i]])
    \/ ~IsSome(Unwrap(Unwrap(ts)[pair[i]]).current_position)

MissingPositionStep ==
  (lastCall' = <<"checkAlerts">> /\ IsSome(telemetryState')) =>
    \A pair \in Pairs :
      (MapHas(activeAlerts, ProximityKey(pair)) /\ Unlocated(telemetryState', pair)) =>
        /\ MapGet(activeAlerts', ProximityKey(pair)) = MapGet(activeAlerts, ProximityKey(pair))
        /\ About(emitted', ProximityKey(pair)) = <<>>

C10_MissingPositionSkips == [][MissingPositionStep]_vars

\* a proximity alert has outlived a pass that could not locate its pair
C10_Witness ==
  /\ AfterPass
  /\ \E pair \in Pairs :
       /\ Unlocated(telemetryState, pair)
       /\ MapHas(activeAlerts, ProximityKey(pair))

(***************************************************************************)
(* C11  Closed key set, one direction per pair.  The store holds, and the  *)
(* channel carries, only the ids V_signal_strength, V_heartbeat_timeout,   *)
(* V_abnormal_status and V_geo_fence for V among ERU, MEA and MRA, and     *)
(* ERU_proximity_MEA, ERU_proximity_MRA and MEA_proximity_MRA: at most 15  *)
(* keys.  The reverse proximity ids MEA_proximity_ERU, MRA_proximity_ERU   *)
(* and MRA_proximity_MEA are never stored and never published.             *)
(***************************************************************************)
SingleKeys ==
  {v \o "_" \o t : v \in {"ERU", "MEA", "MRA"},
                   t \in {"signal_strength", "heartbeat_timeout",
                          "abnormal_status", "geo_fence"}}

ForwardKeys == {"ERU_proximity_MEA", "ERU_proximity_MRA", "MEA_proximity_MRA"}

ReverseKeys == {"MEA_proximity_ERU", "MRA_proximity_ERU", "MRA_proximity_MEA"}

C11_ClosedKeySet ==
  /\ \A i \in 1..Len(activeAlerts) :
       /\ activeAlerts[i].key \in SingleKeys \cup ForwardKeys
       /\ activeAlerts[i].key \notin ReverseKeys
  /\ Len(activeAlerts) <= 15
  /\ Cardinality(SingleKeys \cup ForwardKeys) = 15
  /\ \A i \in 1..Len(emitted) :
       /\ emitted[i].id \in SingleKeys \cup ForwardKeys
       /\ emitted[i].id \notin ReverseKeys

\* the store holds alerts of a vehicle and of a pair at once
C11_Witness ==
  /\ \E i \in 1..Len(activeAlerts) : activeAlerts[i].key \in ForwardKeys
  /\ \E i \in 1..Len(activeAlerts) : activeAlerts[i].key \in SingleKeys
  /\ \E i \in 1..Len(emitted) : emitted[i].id \in ForwardKeys

(***************************************************************************)
(* C12  End-to-end scenario.  From an empty store, one pass over ERU with  *)
(* battery 15, status Connected, signal -50 at (0, 0), MEA with battery 90,*)
(* status Connected, signal -50 at (0, 0.001), about 364 ft away, and no   *)
(* record for MRA publishes exactly one notification, a create-toast with  *)
(* id ERU_abnormal_status and severity error, and leaves exactly that key  *)
(* in the store.                                                           *)
(***************************************************************************)
ScenarioSnapshot ==
  [v \in VehicleSet |->
     IF v = "ERU"
       THEN Some([signal_strength |-> -50, vehicle_status |-> "Connected",
                  battery_life |-> 15,
                  current_position |-> Some([latitude |-> 0, longitude |-> 0])])
     ELSE IF v = "MEA"
       THEN Some([signal_strength |-> -50, vehicle_status |-> "Connected",
                  battery_life |-> 90,
                  current_position |-> Some([latitude |-> 0, longitude |-> 10])])
     ELSE None]

\* what the scenario is expected to leave behind
ScenarioOutcome(alerts, out) ==
  /\ Len(out) = 1
  /\ out[1].name = "create-toast"
  /\ out[1].id = "ERU_abnormal_status"
  /\ out[1].type = "error"
  /\ getActiveAlerts(alerts) = <<"ERU_abnormal_status">>

ScenarioStep ==
  (/\ activeAlerts = <<>>
   /\ lastCall' = <<"checkAlerts">>
   /\ telemetryState' = Some(ScenarioSnapshot)) =>
     /\ ScenarioOutcome(activeAlerts', emitted')
     /\ calculateDistance(0, 0, 0, 10) \in 360..368

C12_EndToEndScenario == [][ScenarioStep]_vars

\* the first pass of a run was the scenario's
C12_Witness ==
  /\ lastCall = <<"checkAlerts">>
  /\ telemetryState = Some(ScenarioSnapshot)
  /\ ScenarioOutcome(activeAlerts, emitted)
  /\ shown = StoreOf(activeAlerts)
  /\ MapGet(activeAlerts, "ERU_abnormal_status") = Some(StartNow)

(***************************************************************************)
(* C13  Redundant notifications are suppressed across passes.  A pass that *)
(* repeats the snapshot of the pass right before it, less than 3000 ms     *)
(* after it, publishes no notification at all.                             *)
(***************************************************************************)
RepeatPassStep ==
  (/\ lastCall = <<"checkAlerts">>
   /\ lastCall' = <<"checkAlerts">>
   /\ telemetryState' = telemetryState
   /\ now' - now < 3000) =>
     emitted' = <<>>

C13_RepeatPassSilent == [][RepeatPassStep]_vars

(***************************************************************************)
(* C14  Suppressed emits do not re-arm the debounce.  An emitAlert call    *)
(* for a stored key less than 3000 ms after its timestamp leaves the whole *)
(* store, that timestamp included, as it was; and a pass whose snapshot    *)
(* raises a key that was last published 3000 ms or more before publishes   *)
(* one create-toast for it and stores the time of the pass, whatever calls *)
(* were suppressed in between.                                             *)
(***************************************************************************)
\* the single-vehicle keys of v whose alert condition holds in the record r
RaisedKeys(v, r) ==
  {k \in {v \o "_signal_strength", v \o "_heartbeat_timeout",
          v \o "_abnormal_status", v \o "_geo_fence"} :
     \/ k = v \o "_signal_strength"
          /\ (r.signal_strength < -70 \/ r.vehicle_status = "Bad Connection")
     \/ k = v \o "_heartbeat_timeout" /\ r.vehicle_status = "Disconnected"
     \/ k = v \o "_abnormal_status" /\ r.battery_life < 20
     \/ k = v \o "_geo_fence" /\ r.vehicle_status = "Approaching restricted area"}

SuppressedEmitStep ==
  \A c \in DispatcherCalls :
    LET k == getAlertKey(c.vehicle, c.type)
    IN  (/\ lastCall' = <<"emitAlert", c.vehicle, c.type>>
         /\ MapHas(activeAlerts, k)
         /\ now' - Unwrap(MapGet(activeAlerts, k)) < 3000) =>
          /\ activeAlerts' = activeAlerts
          /\ emitted' = <<>>

DueUpdateStep ==
  (lastCall' = <<"checkAlerts">> /\ IsSome(telemetryState')) =>
    \A v \in Reporting' :
      \A k \in RaisedKeys(v, RecordOf(v)') :
        (k \in DOMAIN shown /\ now' - shown[k] >= 3000) =>
          /\ Len(Creates(About(emitted', k))) = 1
          /\ MapGet(activeAlerts', k) = Some(now')

C14_SuppressedEmitKeepsTimestamp == [][SuppressedEmitStep /\ DueUpdateStep]_vars

\* ERU_signal_strength, held since before the tick in the middle of the
\* window that raised ERU_abnormal_status, is published again at the end of
\* the window
C14_Witness ==
  /\ AfterPass
  /\ now = StartNow + 3000
  /\ MapHas(activeAlerts, "ERU_signal_strength")
  /\ MapGet(activeAlerts, "ERU_abnormal_status") = Some(StartNow + HalfWindow)
  /\ MapIndex(activeAlerts, "ERU_signal_strength")
       < MapIndex(activeAlerts, "ERU_abnormal_status")
  /\ About(emitted, "ERU_signal_strength") # <<>>
  /\ Dismisses(About(emitted, "ERU_signal_strength")) = <<>>

(***************************************************************************)
(* C15  An absent record is a frame.  A pass over a snapshot in which      *)
(* vehicle V has no record leaves each of V_signal_strength,               *)
(* V_heartbeat_timeout, V_abnormal_status and V_geo_fence as it was in the *)
(* store, timestamp included, and publishes nothing for them.              *)
(***************************************************************************)
SingleKeysOf(v) ==
  {v \o "_signal_strength", v \o "_heartbeat_timeout",
   v \o "_abnormal_status", v \o "_geo_fence"}

AbsentRecordStep ==
  (lastCall' = <<"checkAlerts">> /\ IsSome(telemetryState')) =>
    \A v \in VehicleSet \ Reporting' :
      \A k \in SingleKeysOf(v) :
        /\ MapGet(activeAlerts', k) = MapGet(activeAlerts, k)
        /\ About(emitted', k) = <<>>

C15_AbsentRecordFrame == [][AbsentRecordStep]_vars

\* a vehicle has dropped out of the snapshot and its alert from an earlier
\* time is still in the store
C15_Witness ==
  /\ AfterPass
  /\ \E v \in VehicleSet \ Reporting :
       \E k \in SingleKeysOf(v) :
         /\ MapHas(activeAlerts, k)
         /\ Unwrap(MapGet(activeAlerts, k)) < now

(***************************************************************************)
(* C16  Checker order matters only for signal and connection.  From every  *)
(* store a pass meets and for every record, running the four               *)
(* single-vehicle checkers in any order that has the signal checker before *)
(* the connection checker gives the set of the vehicle's keys in the store *)
(* and the set of notifications that the pass gives; an order with the     *)
(* connection checker first can give another set of keys.                  *)
(***************************************************************************)
\* one of the four checkers, by name, on the record d
runChecker(st, t, vehicle, d, name) ==
  CASE name = "signal" -> checkSignalStrength(st, t, vehicle, d.signal_strength)
    [] name = "connection" -> checkConnectionStatus(st, t, vehicle, d.vehicle_status)
    [] name = "battery" -> checkBatteryLevel(st, t, vehicle, d.battery_life)
    [] name = "geo" -> checkGeoFenceStatus(st, t, vehicle, d.vehicle_status)

RECURSIVE runCheckers(_, _, _, _, _)
\* the checkers named in order, one after the other
runCheckers(st, t, vehicle, d, order) ==
  IF order = <<>> THEN st
  ELSE runCheckers(runChecker(st, t, vehicle, d, Head(order)), t, vehicle, d, Tail(order))

CheckerNames == {"signal", "connection", "battery", "geo"}

\* the orders of the four checkers
Orders == {o \in [1..4 -> CheckerNames] : \A n \in CheckerNames : \E i \in 1..4 : o[i] = n}

\* where a checker stands in an order
Place(o, n) == CHOOSE i \in 1..4 : o[i] = n

SignalFirstOrders == {o \in Orders : Place(o, "signal") < Place(o, "connection")}

ReferenceOrder == <<"signal", "connection", "battery", "geo">>

\* the keys of v in the store m, and the notifications about them among out
KeysOf(m, v) == {m[i].key : i \in 1..Len(m)} \cap SingleKeysOf(v)
NoticesOf(out, v) == {out[i] : i \in {j \in 1..Len(out) : out[j].id \in SingleKeysOf(v)}}

CheckerOrderStep ==
  (lastCall' = <<"checkAlerts">> /\ IsSome(telemetryState')) =>
    \A v \in Reporting' :
      \A o \in SignalFirstOrders :
        \E st \in {runCheckers([alerts |-> activeAlerts, out |-> <<>>], now', v,
                               RecordOf(v)', o)} :
          /\ KeysOf(st.alerts, v) = KeysOf(activeAlerts', v)
          /\ NoticesOf(st.out, v) = NoticesOf(emitted', v)

C16_CheckerOrder == [][CheckerOrderStep]_vars

\* from the store a pass left there is a record for which an order with
\* signal first publishes the notifications of the reference order in
\* another sequence, and an order with connection first leaves other keys
C16_Witness ==
  /\ AfterPass
  /\ \E v \in Reporting :
       \E r \in Readings :
         LET start == [alerts |-> activeAlerts, out |-> <<>>]
             ref == runCheckers(start, now, v, r, ReferenceOrder)
         IN  /\ \E o \in SignalFirstOrders :
                  runCheckers(start, now, v, r, o).out # ref.out
             /\ \E o \in Orders \ SignalFirstOrders :
                  KeysOf(runCheckers(start, now, v, r, o).alerts, v) # KeysOf(ref.alerts, v)

(***************************************************************************)
(* C17  Display agrees with the store.  In every state, once the events    *)
(* published so far are delivered, the ids of the toasts on display are    *)
(* the keys getActiveAlerts returns.                                       *)
(***************************************************************************)
StoreKeys == {activeAlerts[i].key : i \in 1..Len(activeAlerts)}

C17_DisplayEqualsStore ==
  DOMAIN toasts = {getActiveAlerts(activeAlerts)[i] : i \in 1..Len(activeAlerts)}

\* C17, amended.  The ids on display are always among the keys of the store,
\* and no checkAlerts pass and no clearAllAlerts call leaves a key without a
\* toast that had one before: display and store agree until the user
\* dismisses a toast, whose key then stays in the store undisplayed.
DisplayWithinStore == DOMAIN toasts \subseteq StoreKeys

ProgramKeepsDisplayStep ==
  lastCall' \in {<<"checkAlerts">>, <<"clearAllAlerts">>} =>
    (StoreKeys' \ DOMAIN toasts') \subseteq (StoreKeys \ DOMAIN toasts)

C17_DisplayWithinStore ==
  DisplayWithinStore /\ [][DisplayWithinStore' /\ ProgramKeepsDisplayStep]_vars

\* after the user dismissed a toast a pass has run, and the store holds a
\* key on display and a key that is not
C17_Witness ==
  /\ AfterPass
  /\ StoreKeys \ DOMAIN toasts # {}
  /\ DOMAIN toasts # {}

(***************************************************************************)
(* C18  A toast the user dismissed comes back while its condition holds.   *)
(* Dismiss and Dismiss All take toasts off the display and leave the store *)
(* as it is; a pass whose snapshot still raises a stored key without a     *)
(* toast shows it again, with a create-toast, when 3000 ms or more have    *)
(* passed since the key's timestamp, and does not show it before.          *)
(***************************************************************************)
UserStep ==
  lastCall'[1] \in {"Dismiss", "DismissAll"} =>
    /\ activeAlerts' = activeAlerts
    /\ DOMAIN toasts' \subseteq DOMAIN toasts

ReturnStep ==
  (lastCall' = <<"checkAlerts">> /\ IsSome(telemetryState')) =>
    \A v \in Reporting' :
      \A k \in RaisedKeys(v, RecordOf(v)') :
        (MapHas(activeAlerts, k) /\ k \notin DOMAIN toasts) =>
          IF now' - Unwrap(MapGet(activeAlerts, k)) >= 3000
            THEN /\ Len(Creates(About(emitted', k))) = 1
                 /\ k \in DOMAIN toasts'
            ELSE k \notin DOMAIN toasts'

C18_DismissedToastReturns == [][UserStep /\ ReturnStep]_vars

====
